---- MODULE Spec2Model ----
(***************************************************************************)
(* azurelinuxagent/protocol/ovfenv.py: copying ovf-env.xml from the        *)
(* provisioning DVD to the library directory and parsing it into OvfEnv.   *)
(*                                                                         *)
(* A text is a sequence of one-character strings.  A document text is a    *)
(* sequence of lexical tokens (start tag, end tag, character data); the    *)
(* characters of a tag are kept as its prefix and local name, the          *)
(* namespace its prefix is bound to is carried on the start tag.           *)
(* Python's None is the empty tuple, any other value v is <<v>>.           *)
(***************************************************************************)
EXTENDS Naturals, Sequences, FiniteSets, TLC

VARIABLES
    doc,        \* parameters of the ovf-env.xml that is on the DVD
    tagOnDvd,   \* useMetadataEndpoint.tag exists on the DVD
    mounted,    \* the DVD is mounted
    ejected,    \* the DVD has been ejected
    pc,         \* position of copy_ovf_env: "idle" before it is called, then the
                \* statement reached, then "returned" or "raised"
    ovfxml,     \* copy_ovf_env's local ovfxml
    ovfenv,     \* copy_ovf_env's local ovfenv
    ret,        \* the object copy_ovf_env returned to its caller
    exc,        \* the exception copy_ovf_env raised ("none": none so far)
    failedAt,   \* the step of copy_ovf_env that raised
    calls,      \* the collaborator calls copy_ovf_env made, in order
    libOvf,     \* content of <lib_dir>/ovf-env.xml (None: no such file)
    libTag,     \* <lib_dir>/useMetadataEndpoint.tag exists
    getExc,     \* the exception the latest get_ovf_env raised ("": never called)
    last,       \* input and outcome of the latest OvfEnv(...) construction
    rerun       \* the latest construction against the one before it: "equal" or
                \* "differs" (same input, outcomes compared), else "none"

vars == <<doc, tagOnDvd, mounted, ejected, pc, ovfxml, ovfenv, ret, exc, failedAt,
          calls, libOvf, libTag, getExc, last, rerun>>

None == <<>>
Some(v) == <<v>>

(***************************************************************************)
(* Module constants                                                        *)
(***************************************************************************)
OVF_FILE_NAME == "ovf-env.xml"
TAG_FILE_NAME == "useMetadataEndpoint.tag"
OVF_VERSION == <<"1", ".", "0">>
OVF_NAME_SPACE == "http://schemas.dmtf.org/ovf/environment/1"
WA_NAME_SPACE == "http://schemas.microsoft.com/windowsazure"
NO_NAME_SPACE == ""

(***************************************************************************)
(* Python str: code points, comparison, lower()                            *)
(***************************************************************************)
OrdTable ==
    ("\n" :> 10) @@ (" " :> 32) @@ ("*" :> 42) @@ ("." :> 46) @@
    ("0" :> 48) @@ ("1" :> 49) @@ ("2" :> 50) @@ ("9" :> 57) @@
    ("E" :> 69) @@ ("H" :> 72) @@ ("R" :> 82) @@ ("T" :> 84) @@ ("U" :> 85) @@
    ("a" :> 97) @@ ("c" :> 99) @@ ("e" :> 101) @@ ("f" :> 102) @@
    ("g" :> 103) @@ ("h" :> 104) @@ ("k" :> 107) @@ ("l" :> 108) @@
    ("p" :> 112) @@ ("r" :> 114) @@ ("s" :> 115) @@ ("t" :> 116) @@
    ("u" :> 117) @@ ("w" :> 119)

ord(c) == OrdTable[c]

LowerTable ==
    ("E" :> "e") @@ ("H" :> "h") @@ ("R" :> "r") @@ ("T" :> "t") @@ ("U" :> "u")

\* str.lower()
lower(s) == [i \in 1..Len(s) |-> IF s[i] \in DOMAIN LowerTable THEN LowerTable[s[i]] ELSE s[i]]

\* a > b on str: the first differing code point decides, a proper extension is greater
RECURSIVE str_gt(_, _)
str_gt(a, b) ==
    IF a = <<>> THEN FALSE
    ELSE IF b = <<>> THEN TRUE
    ELSE IF ord(Head(a)) > ord(Head(b)) THEN TRUE
    ELSE IF ord(Head(a)) < ord(Head(b)) THEN FALSE
    ELSE str_gt(Tail(a), Tail(b))

(***************************************************************************)
(* Document text: tokens                                                   *)
(***************************************************************************)
STag(prefix, name, ns) == [t |-> "stag", prefix |-> prefix, name |-> name, ns |-> ns, data |-> <<>>]
ETag(prefix, name) == [t |-> "etag", prefix |-> prefix, name |-> name, ns |-> NO_NAME_SPACE, data |-> <<>>]
Chars(data) == [t |-> "chars", prefix |-> "", name |-> "", ns |-> NO_NAME_SPACE, data |-> data]

IsTag(tok) == tok.t \in {"stag", "etag"}

(***************************************************************************)
(* utils.textutil: parse_doc, findall, find, gettext, findtext             *)
(* The DOM is the sequence of its nodes in document order; a node is       *)
(* referred to by its index, the document node by 0.                       *)
(***************************************************************************)
ElemNode(tok, parent) == [kind |-> "elem", prefix |-> tok.prefix, name |-> tok.name, ns |-> tok.ns, data |-> <<>>, parent |-> parent]
TextNode(tok, parent) == [kind |-> "text", prefix |-> "", name |-> "", ns |-> NO_NAME_SPACE, data |-> tok.data, parent |-> parent]

Malformed == [ok |-> FALSE, nodes |-> <<>>]

Roots(nodes) == {j \in 1..Len(nodes) : nodes[j].parent = 0}

RECURSIVE build_dom(_, _, _, _)
build_dom(toks, i, stack, nodes) ==
    IF i > Len(toks)
    THEN IF stack = <<>> /\ Cardinality(Roots(nodes)) = 1
         THEN [ok |-> TRUE, nodes |-> nodes]
         ELSE Malformed
    ELSE LET tok == toks[i]
             top == IF stack = <<>> THEN 0 ELSE stack[Len(stack)]
         IN CASE tok.t = "stag" ->
                    IF stack = <<>> /\ Roots(nodes) # {}
                    THEN Malformed
                    ELSE build_dom(toks, i + 1, Append(stack, Len(nodes) + 1),
                                   Append(nodes, ElemNode(tok, top)))
              [] tok.t = "etag" ->
                    IF stack = <<>> THEN Malformed
                    ELSE IF nodes[top].name # tok.name \/ nodes[top].prefix # tok.prefix
                    THEN Malformed
                    ELSE build_dom(toks, i + 1, SubSeq(stack, 1, Len(stack) - 1), nodes)
              [] OTHER ->
                    IF stack = <<>> THEN Malformed
                    ELSE build_dom(toks, i + 1, stack, Append(nodes, TextNode(tok, top)))

\* parse_doc(xml_text): the DOM, or not ok when the text is not well-formed XML
parse_doc(xml_text) == build_dom(xml_text, 1, <<>>, <<>>)

RECURSIVE is_under(_, _, _)
is_under(nodes, j, root) ==
    IF root = 0 THEN TRUE
    ELSE IF nodes[j].parent = root THEN TRUE
    ELSE IF nodes[j].parent = 0 THEN FALSE
    ELSE is_under(nodes, nodes[j].parent, root)

\* findall(root, tag, namespace): the matching elements below root, in document order
findall(nodes, root, tag, namespace) ==
    IF root = None THEN <<>>
    ELSE SelectSeq([j \in 1..Len(nodes) |-> j],
                   LAMBDA j : /\ nodes[j].kind = "elem"
                              /\ nodes[j].name = tag
                              /\ nodes[j].ns = namespace
                              /\ is_under(nodes, j, root[1]))

\* find(root, tag, namespace): the first matching element, or None
find(nodes, root, tag, namespace) ==
    LET found == findall(nodes, root, tag, namespace)
    IN IF Len(found) >= 1 THEN Some(found[1]) ELSE None

\* gettext(node): the data of the node's first text child, or None
gettext(nodes, node) ==
    IF node = None THEN None
    ELSE LET texts == SelectSeq([j \in 1..Len(nodes) |-> j],
                                LAMBDA j : nodes[j].kind = "text" /\ nodes[j].parent = node[1])
         IN IF texts = <<>> THEN None ELSE Some(nodes[texts[1]].data)

\* findtext(root, tag, namespace)
findtext(nodes, root, tag, namespace) == gettext(nodes, find(nodes, root, tag, namespace))

(***************************************************************************)
(* _validate_ovf and class OvfEnv                                          *)
(***************************************************************************)
\* _validate_ovf(val, msg): the exception it raises ("none": it returns)
validate_ovf_value_error(val, msg) == IF val = None THEN "ValueError" ELSE "none"

validate_ovf_skips_names(val, msg) ==
    IF val = None /\ msg \notin {"HostName not found", "UserName not found"}
    THEN "ProtocolError"
    ELSE "none"

_validate_ovf(val, msg) == IF val = None THEN "ProtocolError" ELSE "none"

\* OvfEnv.__init__: the guard on xml_text
rejects_none_or_empty(xml_text) == xml_text = None \/ xml_text = Some(<<>>)

xml_text_is_none(xml_text) == xml_text = None

\* OvfEnv.__init__: self.ssh_pubkeys = []
shared_ssh_pubkeys == IF last.out.obj = None THEN <<>> ELSE last.out.obj[1].ssh_pubkeys

new_ssh_pubkeys == <<>>

\* OvfEnv.__init__: the fields before parse
init_fields ==
    [hostname |-> None,
     username |-> None,
     user_password |-> None,
     customdata |-> None,
     disable_ssh_password_auth |-> TRUE,
     ssh_pubkeys |-> new_ssh_pubkeys,
     ssh_keypairs |-> <<>>]

Raised(kind, self, warned) == [exc |-> kind, self |-> self, warned |-> warned]

\* parse: version > OVF_VERSION
version_ge(version) == version = OVF_VERSION \/ str_gt(version, OVF_VERSION)

version_is_newer(version) == str_gt(version, OVF_VERSION)

\* parse: self.hostname = findtext(conf_set, "HostName", namespace=wans)
read_hostname_lowered(nodes, conf_set) ==
    LET v == findtext(nodes, conf_set, "HostName", WA_NAME_SPACE)
    IN IF v = None THEN None ELSE Some(lower(v[1]))

read_hostname(nodes, conf_set) == findtext(nodes, conf_set, "HostName", WA_NAME_SPACE)

\* parse: self.username = findtext(conf_set, "UserName", namespace=wans)
read_username(nodes, conf_set) == findtext(nodes, conf_set, "UserName", WA_NAME_SPACE)

\* parse: auth_option is not None and auth_option.lower() == "true"
auth_option_exact(auth_option) ==
    auth_option # None /\ auth_option[1] = <<"t", "r", "u", "e">>

auth_option_is_true(auth_option) ==
    auth_option # None /\ lower(auth_option[1]) = <<"t", "r", "u", "e">>

\* parse: the loop over findall(conf_set, "PublicKey"), appending to self.ssh_pubkeys
RECURSIVE append_pubkeys(_, _, _, _)
append_pubkeys(nodes, public_keys, i, acc) ==
    IF i > Len(public_keys) THEN acc
    ELSE LET public_key == Some(public_keys[i])
             path == findtext(nodes, public_key, "Path", WA_NAME_SPACE)
             fingerprint == findtext(nodes, public_key, "Fingerprint", WA_NAME_SPACE)
             value == findtext(nodes, public_key, "Value", WA_NAME_SPACE)
         IN append_pubkeys(nodes, public_keys, i + 1,
                           Append(acc, <<path, fingerprint, value>>))

RECURSIVE append_pubkeys_dedup(_, _, _, _)
append_pubkeys_dedup(nodes, public_keys, i, acc) ==
    IF i > Len(public_keys) THEN acc
    ELSE LET public_key == Some(public_keys[i])
             path == findtext(nodes, public_key, "Path", WA_NAME_SPACE)
             fingerprint == findtext(nodes, public_key, "Fingerprint", WA_NAME_SPACE)
             value == findtext(nodes, public_key, "Value", WA_NAME_SPACE)
             entry == <<path, fingerprint, value>>
         IN append_pubkeys_dedup(nodes, public_keys, i + 1,
                IF \E k \in 1..Len(acc) : acc[k] = entry THEN acc ELSE Append(acc, entry))

read_pubkeys_dedup(nodes, conf_set, acc) ==
    append_pubkeys_dedup(nodes, findall(nodes, conf_set, "PublicKey", WA_NAME_SPACE), 1, acc)

read_pubkeys(nodes, conf_set, acc) ==
    append_pubkeys(nodes, findall(nodes, conf_set, "PublicKey", WA_NAME_SPACE), 1, acc)

\* parse: the loop over findall(conf_set, "KeyPair"), appending to self.ssh_keypairs
RECURSIVE append_keypairs(_, _, _, _)
append_keypairs(nodes, keypairs, i, acc) ==
    IF i > Len(keypairs) THEN acc
    ELSE LET keypair == Some(keypairs[i])
             path == findtext(nodes, keypair, "Path", WA_NAME_SPACE)
             fingerprint == findtext(nodes, keypair, "Fingerprint", WA_NAME_SPACE)
         IN append_keypairs(nodes, keypairs, i + 1, Append(acc, <<path, fingerprint>>))

read_keypairs(nodes, conf_set, acc) ==
    append_keypairs(nodes, findall(nodes, conf_set, "KeyPair", WA_NAME_SPACE), 1, acc)

\* parse, from conf_set on: the fields, in the order the code assigns them
parse_conf_set(self, nodes, conf_set, warned) ==
    LET s1 == [self EXCEPT !.hostname = read_hostname(nodes, conf_set)]
        e1 == _validate_ovf(s1.hostname, "HostName not found")
        s2 == [s1 EXCEPT !.username = read_username(nodes, conf_set)]
        e2 == _validate_ovf(s2.username, "UserName not found")
        auth_option == findtext(nodes, conf_set, "DisableSshPasswordAuthentication", WA_NAME_SPACE)
        s3 == [s2 EXCEPT
                 !.user_password = findtext(nodes, conf_set, "UserPassword", WA_NAME_SPACE),
                 !.customdata = findtext(nodes, conf_set, "CustomData", WA_NAME_SPACE),
                 !.disable_ssh_password_auth = auth_option_is_true(auth_option)]
        s4 == [s3 EXCEPT !.ssh_pubkeys = read_pubkeys(nodes, conf_set, s3.ssh_pubkeys)]
        s5 == [s4 EXCEPT !.ssh_keypairs = read_keypairs(nodes, conf_set, s4.ssh_keypairs)]
    IN IF e1 # "none" THEN Raised(e1, s1, warned)
       ELSE IF e2 # "none" THEN Raised(e2, s2, warned)
       ELSE [exc |-> "none", self |-> s5, warned |-> warned]

\* OvfEnv.parse(self, xml_text): the exception raised, self as parse left it, and
\* whether logger.warn was called
parse(self, xml_text) ==
    LET dom == parse_doc(xml_text)
        nodes == dom.nodes
        environment == find(nodes, Some(0), "Environment", OVF_NAME_SPACE)
        e_environment == _validate_ovf(environment, "Environment not found")
        section == find(nodes, environment, "ProvisioningSection", WA_NAME_SPACE)
        e_section == _validate_ovf(section, "ProvisioningSection not found")
        version == findtext(nodes, environment, "Version", WA_NAME_SPACE)
        e_version == _validate_ovf(version, "Version not found")
        warned == version_is_newer(version[1])
        conf_set == find(nodes, section, "LinuxProvisioningConfigurationSet", WA_NAME_SPACE)
        e_conf_set == _validate_ovf(conf_set, "LinuxProvisioningConfigurationSet not found")
    IN IF ~dom.ok THEN Raised("MalformedXmlError", self, FALSE)
       ELSE IF e_environment # "none" THEN Raised(e_environment, self, FALSE)
       ELSE IF e_section # "none" THEN Raised(e_section, self, FALSE)
       ELSE IF e_version # "none" THEN Raised(e_version, self, FALSE)
       ELSE IF e_conf_set # "none" THEN Raised(e_conf_set, self, warned)
       ELSE parse_conf_set(self, nodes, conf_set, warned)

\* OvfEnv(xml_text): what the caller of the constructor gets: the exception, or
\* the constructed object
OvfEnv(xml_text) ==
    IF xml_text_is_none(xml_text)
    THEN [exc |-> "ValueError", obj |-> None, warned |-> FALSE]
    ELSE LET r == parse(init_fields, xml_text[1])
         IN [exc |-> r.exc,
             obj |-> IF r.exc = "none" THEN Some(r.self) ELSE None,
             warned |-> r.warned]

(***************************************************************************)
(* copy_ovf_env: re.sub("<UserPassword>.*?<", "<UserPassword>*<", ovfxml)  *)
(***************************************************************************)
\* the characters "<UserPassword>": a start tag with no prefix
IsPasswordTag(tok) == tok.t = "stag" /\ tok.prefix = "" /\ tok.name = "UserPassword"

HasNewline(data) == \E k \in 1..Len(data) : data[k] = "\n"

Star == Chars(<<"*">>)

\* Scanning from token i.  A match starts at "<UserPassword>", runs over
\* characters other than newline (as few as possible) and ends with the "<"
\* of the next tag; that "<" is consumed, so the tag it opens starts no match.
RECURSIVE re_sub_from(_, _, _)
re_sub_from(toks, i, consumed) ==
    IF i > Len(toks) THEN <<>>
    ELSE IF consumed \/ ~IsPasswordTag(toks[i])
    THEN <<toks[i]>> \o re_sub_from(toks, i + 1, FALSE)
    ELSE IF i + 1 <= Len(toks) /\ IsTag(toks[i + 1])
    THEN <<toks[i], Star>> \o re_sub_from(toks, i + 1, TRUE)
    ELSE IF /\ i + 2 <= Len(toks)
            /\ ~HasNewline(toks[i + 1].data)
            /\ IsTag(toks[i + 2])
    THEN <<toks[i], Star>> \o re_sub_from(toks, i + 2, TRUE)
    ELSE <<toks[i]>> \o re_sub_from(toks, i + 1, FALSE)

re_sub_password(text) == re_sub_from(text, 1, FALSE)

(***************************************************************************)
(* The documents the DVD may carry                                         *)
(***************************************************************************)
MaxKeys == 2

RECURSIVE Flatten(_)
Flatten(seqs) == IF seqs = <<>> THEN <<>> ELSE Head(seqs) \o Flatten(Tail(seqs))

El(prefix, name, ns, content) == <<STag(prefix, name, ns)>> \o content \o <<ETag(prefix, name)>>

\* an element holding text: left out when val is None, without character data
\* when val is the empty text
TextEl(prefix, name, ns, val) ==
    IF val = None THEN <<>>
    ELSE El(prefix, name, ns, IF val[1] = <<>> THEN <<>> ELSE <<Chars(val[1])>>)

PublicKeyEl(k) ==
    El("", "PublicKey", WA_NAME_SPACE,
       TextEl("", "Fingerprint", WA_NAME_SPACE, k[2])
       \o TextEl("", "Path", WA_NAME_SPACE, k[1])
       \o TextEl("", "Value", WA_NAME_SPACE, k[3]))

KeyPairEl(k) ==
    El("", "KeyPair", WA_NAME_SPACE,
       TextEl("", "Fingerprint", WA_NAME_SPACE, k[2])
       \o TextEl("", "Path", WA_NAME_SPACE, k[1]))

SshEl(p) ==
    IF p.pubkeys = <<>> /\ p.keypairs = <<>> THEN <<>>
    ELSE El("", "SSH", WA_NAME_SPACE,
            El("", "PublicKeys", WA_NAME_SPACE,
               Flatten([i \in 1..Len(p.pubkeys) |-> PublicKeyEl(p.pubkeys[i])]))
            \o El("", "KeyPairs", WA_NAME_SPACE,
                  Flatten([i \in 1..Len(p.keypairs) |-> KeyPairEl(p.keypairs[i])])))

ConfContent(p) ==
    TextEl("", "HostName", WA_NAME_SPACE, p.host)
    \o TextEl("", "UserName", WA_NAME_SPACE, p.user)
    \o TextEl(p.pwprefix, "UserPassword", WA_NAME_SPACE, p.pw)
    \o TextEl("", "DisableSshPasswordAuthentication", WA_NAME_SPACE, p.auth)
    \o SshEl(p)
    \o TextEl("", "CustomData", WA_NAME_SPACE, p.custom)

ConfSetEl(p) == El("", "LinuxProvisioningConfigurationSet", WA_NAME_SPACE, ConfContent(p))

VersionEl(p) == TextEl("wa", "Version", WA_NAME_SPACE, p.version)

FullText(p) ==
    El("", "Environment", OVF_NAME_SPACE,
       El("wa", "ProvisioningSection", WA_NAME_SPACE, VersionEl(p) \o ConfSetEl(p)))

\* the text of the document with parameters p
DocText(p) ==
    CASE p.env = "full" -> FullText(p)
      [] p.env = "noEnvironment" ->
            El("", "Configuration", NO_NAME_SPACE,
               El("wa", "ProvisioningSection", WA_NAME_SPACE, VersionEl(p) \o ConfSetEl(p)))
      [] p.env = "environmentOtherNs" ->
            El("", "Environment", NO_NAME_SPACE,
               El("wa", "ProvisioningSection", WA_NAME_SPACE, VersionEl(p) \o ConfSetEl(p)))
      [] p.env = "noSection" ->
            El("", "Environment", OVF_NAME_SPACE, VersionEl(p) \o ConfSetEl(p))
      [] p.env = "noConfSet" ->
            El("", "Environment", OVF_NAME_SPACE,
               El("wa", "ProvisioningSection", WA_NAME_SPACE, VersionEl(p) \o ConfContent(p)))
      [] p.env = "unclosed" ->
            SubSeq(FullText(p), 1, Len(FullText(p)) - 1)
      [] p.env = "empty" -> <<>>

EnvKinds == {"full", "noEnvironment", "environmentOtherNs", "noSection", "noConfSet", "unclosed"}

Versions ==
    {None, Some(<<>>), Some(<<"1", ".", "0">>), Some(<<"1", ".", "1", "0">>),
     Some(<<"1", ".", "2">>), Some(<<"0", ".", "9">>), Some(<<"1">>), Some(<<"1", "0">>)}

HostNames == {None, Some(<<>>), Some(<<"h">>), Some(<<" ", "H", " ">>)}

UserNames == {None, Some(<<>>), Some(<<"u">>)}

Passwords == {None, Some(<<>>), Some(<<"p", "w">>), Some(<<"p", "\n", "w">>)}

AuthOptions ==
    {None, Some(<<>>), Some(<<"t", "r", "u", "e">>), Some(<<"T", "r", "u", "e">>),
     Some(<<"T", "R", "U", "E">>), Some(<<"f", "a", "l", "s", "e">>),
     Some(<<"t", "r", "u">>), Some(<<"t", "r", "u", "e", " ">>)}

\* (path, fingerprint, value)
PublicKeys ==
    {<<None, None, None>>,
     <<Some(<<"p">>), Some(<<"f">>), Some(<<"k">>)>>,
     <<Some(<<>>), Some(<<"f">>), Some(<<>>)>>}

\* (path, fingerprint)
KeyPairs == {<<None, None>>, <<Some(<<"p">>), Some(<<"f">>)>>}

SeqsUpTo(S, n) == UNION {[1..m -> S] : m \in 0..n}

BaseDoc ==
    [env |-> "full", version |-> Some(<<"1", ".", "0">>),
     host |-> Some(<<"h">>), user |-> Some(<<"u">>),
     pw |-> Some(<<"p", "w">>), pwprefix |-> "", custom |-> None,
     auth |-> None, pubkeys |-> <<>>, keypairs |-> <<>>]

MissingOne ==
    {BaseDoc, [BaseDoc EXCEPT !.version = None], [BaseDoc EXCEPT !.host = None],
     [BaseDoc EXCEPT !.user = None]}

OneKey == <<Some(<<"p">>), Some(<<"f">>), Some(<<"k">>)>>

Documents ==
    {[d EXCEPT !.env = e] : d \in MissingOne, e \in EnvKinds}
    \cup
    {[BaseDoc EXCEPT !.env = "empty"]}
    \cup
    {[BaseDoc EXCEPT !.version = v] : v \in Versions}
    \cup
    {[BaseDoc EXCEPT !.host = h, !.user = u] : h \in HostNames, u \in UserNames}
    \cup
    {[BaseDoc EXCEPT !.pw = w, !.pwprefix = x, !.custom = c] :
        w \in Passwords, x \in {"", "wa"}, c \in {None, Some(<<"c">>)}}
    \cup
    {[BaseDoc EXCEPT !.auth = a] : a \in AuthOptions}
    \cup
    {[BaseDoc EXCEPT !.pubkeys = ks] : ks \in SeqsUpTo(PublicKeys, MaxKeys)}
    \cup
    {[BaseDoc EXCEPT !.pubkeys = <<OneKey>>, !.keypairs = kp] :
        kp \in SeqsUpTo(KeyPairs, MaxKeys)}

\* the DVDs: a document, and whether the tag file is beside it
Media ==
    {<<d, FALSE>> : d \in Documents}
    \cup
    {<<d, TRUE>> : d \in {[x EXCEPT !.env = e] : x \in MissingOne, e \in {"full", "noConfSet"}}}

(***************************************************************************)
(* State                                                                   *)
(***************************************************************************)
NoCall == [in |-> None, out |-> [exc |-> "nocall", obj |-> None, warned |-> FALSE]]

Init ==
    /\ \E m \in Media : doc = m[1] /\ tagOnDvd = m[2]
    /\ mounted = FALSE
    /\ ejected = FALSE
    /\ pc = "idle"
    /\ ovfxml = None
    /\ ovfenv = None
    /\ ret = None
    /\ exc = "none"
    /\ failedAt = ""
    /\ calls = <<>>
    /\ libOvf = None
    /\ libTag = FALSE
    /\ getExc = ""
    /\ last = NoCall
    /\ rerun = "none"

\* an OvfEnv(xml_text) construction that gave r has taken place
Constructed(xml_text, r) ==
    /\ last' = [in |-> xml_text, out |-> r]
    /\ rerun' = IF last.out.exc = "nocall" \/ last.in # xml_text THEN "none"
                 ELSE IF last.out = r THEN "equal"
                 ELSE "differs"

\* copy_ovf_env: "except IOError" and "except OSUtilError" re-raise as
\* ProtocolError, any other exception propagates as it is
except_nothing(kind) == kind

except_clause(kind) == IF kind \in {"IOError", "OSUtilError"} THEN "ProtocolError" ELSE kind

\* copy_ovf_env leaves through an exception raised at step; its locals are gone
Raise(step, kind) ==
    /\ exc' = except_clause(kind)
    /\ failedAt' = step
    /\ pc' = "raised"
    /\ ovfxml' = None
    /\ ovfenv' = None
    /\ UNCHANGED ret

(***************************************************************************)
(* copy_ovf_env, one action per statement that calls a collaborator.       *)
(* It is called once, by provisioning.  A collaborator that raises has     *)
(* changed nothing.                                                        *)
(***************************************************************************)
\* OSUTIL.mount_dvd()
MountDvd ==
    /\ pc = "idle"
    /\ calls' = Append(calls, "mount_dvd")
    /\ \/ /\ mounted' = TRUE
          /\ pc' = "mounted"
          /\ UNCHANGED <<ovfxml, ovfenv, ret, exc, failedAt>>
       \/ /\ Raise("mount_dvd", "OSUtilError")
          /\ UNCHANGED mounted
    /\ UNCHANGED <<doc, tagOnDvd, ejected, libOvf, libTag, getExc, last, rerun>>

\* ovfxml = fileutil.read_file(ovf_file_path_on_dvd, remove_bom=True)
ReadFile ==
    /\ pc = "mounted"
    /\ calls' = Append(calls, "read_file")
    /\ \/ /\ ovfxml' = Some(DocText(doc))
          /\ pc' = "read"
          /\ UNCHANGED <<ovfenv, ret, exc, failedAt>>
       \/ Raise("read_file", "IOError")
    /\ UNCHANGED <<doc, tagOnDvd, mounted, ejected, libOvf, libTag, getExc, last, rerun>>

\* ovfenv = OvfEnv(ovfxml)
ParseOvfEnv ==
    /\ pc = "read"
    /\ calls' = Append(calls, "OvfEnv")
    /\ LET r == OvfEnv(ovfxml)
       IN /\ Constructed(ovfxml, r)
          /\ IF r.exc = "none"
             THEN /\ ovfenv' = r.obj
                  /\ pc' = "parsed"
                  /\ UNCHANGED <<ovfxml, ret, exc, failedAt>>
             ELSE Raise("OvfEnv", r.exc)
    /\ UNCHANGED <<doc, tagOnDvd, mounted, ejected, libOvf, libTag, getExc>>

\* ovfxml = re.sub(...); fileutil.write_file(ovf_file_path, ovfxml)
WriteFile ==
    /\ pc = "parsed"
    /\ calls' = Append(calls, "write_file")
    /\ \/ /\ ovfxml' = Some(re_sub_password(ovfxml[1]))
          /\ libOvf' = ovfxml'
          /\ pc' = "written"
          /\ UNCHANGED <<ovfenv, ret, exc, failedAt>>
       \/ /\ Raise("write_file", "IOError")
          /\ UNCHANGED libOvf
    /\ UNCHANGED <<doc, tagOnDvd, mounted, ejected, libTag, getExc, last, rerun>>

\* os.path.isfile(tag_file_path_on_dvd) holds: shutil.copyfile(...)
CopyTagFile ==
    /\ pc = "written"
    /\ tagOnDvd
    /\ calls' = Append(calls, "copyfile")
    /\ \/ /\ libTag' = TRUE
          /\ pc' = "tagged"
          /\ UNCHANGED <<ovfxml, ovfenv, ret, exc, failedAt>>
       \/ /\ Raise("copyfile", "IOError")
          /\ UNCHANGED libTag
    /\ UNCHANGED <<doc, tagOnDvd, mounted, ejected, libOvf, getExc, last, rerun>>

\* os.path.isfile(tag_file_path_on_dvd) does not hold
NoTagFile ==
    /\ pc = "written"
    /\ ~tagOnDvd
    /\ pc' = "tagged"
    /\ UNCHANGED <<doc, tagOnDvd, mounted, ejected, ovfxml, ovfenv, ret, exc, failedAt,
                   calls, libOvf, libTag, getExc, last, rerun>>

\* OSUTIL.umount_dvd()
UmountDvd ==
    /\ pc = "tagged"
    /\ calls' = Append(calls, "umount_dvd")
    /\ \/ /\ mounted' = FALSE
          /\ pc' = "umounted"
          /\ UNCHANGED <<ovfxml, ovfenv, ret, exc, failedAt>>
       \/ /\ Raise("umount_dvd", "OSUtilError")
          /\ UNCHANGED mounted
    /\ UNCHANGED <<doc, tagOnDvd, ejected, libOvf, libTag, getExc, last, rerun>>

\* OSUTIL.eject_dvd(); return ovfenv
EjectDvd ==
    /\ pc = "umounted"
    /\ calls' = Append(calls, "eject_dvd")
    /\ \/ /\ ejected' = TRUE
          /\ pc' = "returned"
          /\ ret' = ovfenv
          /\ ovfxml' = None
          /\ ovfenv' = None
          /\ UNCHANGED <<exc, failedAt>>
       \/ /\ Raise("eject_dvd", "OSUtilError")
          /\ UNCHANGED ejected
    /\ UNCHANGED <<doc, tagOnDvd, mounted, libOvf, libTag, getExc, last, rerun>>

(***************************************************************************)
(* get_ovf_env, and a caller constructing OvfEnv itself; neither runs      *)
(* while copy_ovf_env does                                                 *)
(***************************************************************************)
Outside == pc \in {"idle", "returned", "raised"}

\* fileutil.read_file may raise IOError, which get_ovf_env lets through
GetOvfEnv ==
    /\ Outside
    /\ IF libOvf # None
       THEN \/ LET r == OvfEnv(libOvf)
               IN /\ Constructed(libOvf, r)
                  /\ getExc' = r.exc
            \/ /\ getExc' = "IOError"
               /\ UNCHANGED <<last, rerun>>
       ELSE /\ getExc' = "ProtocolError"
            /\ UNCHANGED <<last, rerun>>
    /\ UNCHANGED <<doc, tagOnDvd, mounted, ejected, pc, ovfxml, ovfenv, ret, exc, failedAt,
                   calls, libOvf, libTag>>

\* the texts a caller has at hand: none, and the document's
CallerTexts == {None, Some(DocText(doc))}

NewOvfEnv ==
    /\ Outside
    /\ \E xml_text \in CallerTexts : Constructed(xml_text, OvfEnv(xml_text))
    /\ UNCHANGED <<doc, tagOnDvd, mounted, ejected, pc, ovfxml, ovfenv, ret, exc, failedAt,
                   calls, libOvf, libTag, getExc>>

Next ==
    \/ MountDvd
    \/ ReadFile
    \/ ParseOvfEnv
    \/ WriteFile
    \/ CopyTagFile
    \/ NoTagFile
    \/ UmountDvd
    \/ EjectDvd
    \/ GetOvfEnv
    \/ NewOvfEnv

Spec == Init /\ [][Next]_vars

(***************************************************************************)
(* What a document says, read off its parameters                          *)
(***************************************************************************)
TextV10 == <<"1", ".", "0">>

WellFormed(d) == d.env \notin {"unclosed", "empty"}

\* a required element is missing
MissingRequired(d) ==
    /\ WellFormed(d)
    /\ \/ d.env # "full"
       \/ d.version = None
       \/ d.host = None
       \/ d.user = None

NonEmpty(val) == val # None /\ val[1] # <<>>

\* every required element is there, with text
AllRequiredNonEmpty(d) ==
    /\ d.env = "full"
    /\ NonEmpty(d.version)
    /\ NonEmpty(d.host)
    /\ NonEmpty(d.user)

\* an element without text gives no text
Unset(val) == IF val = Some(<<>>) THEN None ELSE val

SaysTrue(val) ==
    /\ val # None
    /\ Len(val[1]) = 4
    /\ val[1][1] \in {"t", "T"}
    /\ val[1][2] \in {"r", "R"}
    /\ val[1][3] \in {"u", "U"}
    /\ val[1][4] \in {"e", "E"}

\* a is after b in the lexicographic order of code points
LexGreater(a, b) ==
    \E i \in 1..Len(a) :
        /\ \A j \in 1..(i - 1) : j <= Len(b) /\ a[j] = b[j]
        /\ \/ i > Len(b)
           \/ ord(a[i]) > ord(b[i])

ExpectedKeys(keys) == [i \in 1..Len(keys) |-> [j \in 1..Len(keys[i]) |-> Unset(keys[i][j])]]

ExpectedObj(d) ==
    [hostname |-> d.host,
     username |-> d.user,
     user_password |-> Unset(d.pw),
     customdata |-> Unset(d.custom),
     disable_ssh_password_auth |-> SaysTrue(d.auth),
     ssh_pubkeys |-> ExpectedKeys(d.pubkeys),
     ssh_keypairs |-> ExpectedKeys(d.keypairs)]

\* the document with every password replaced by "*"
Sanitized(d) == [d EXCEPT !.pw = IF d.pw = None THEN None ELSE Some(<<"*">>)]

\* the latest construction was given the document's text
ParsedDoc == last.out.exc # "nocall" /\ last.in = Some(DocText(doc))

\* some construction has taken place
ParsedAny == last.out.exc # "nocall"

Range(seq) == {seq[i] : i \in 1..Len(seq)}

IsPrefix(a, b) == Len(a) <= Len(b) /\ SubSeq(b, 1, Len(a)) = a

(***************************************************************************)
(* The properties                                                          *)
(***************************************************************************)
\* C1: a document missing Environment, ProvisioningSection, Version,
\* LinuxProvisioningConfigurationSet, HostName or UserName makes the
\* construction raise ProtocolError, and no object reaches the caller
\* (neither the constructor's nor copy_ovf_env's).
C1_MissingRequiredRaises ==
    /\ (ParsedDoc /\ MissingRequired(doc)) =>
          (last.out.exc = "ProtocolError" /\ last.out.obj = None)
    /\ MissingRequired(doc) =>
          /\ ovfenv = None
          /\ ret = None
          /\ failedAt = "OvfEnv" => exc = "ProtocolError"

C1_Witness ==
    /\ ParsedDoc
    /\ doc.env = "noSection"
    /\ doc.host # None
    /\ last.out.exc = "ProtocolError"
    /\ failedAt = "OvfEnv"

\* C2 as stated: an absent text and an empty text both raise ValueError.
C2_AbsentOrEmptyRaisesValueError ==
    (ParsedAny /\ last.in \in {None, Some(<<>>)}) => last.out.exc = "ValueError"

\* C2 amended: an absent text, and only an absent text, raises ValueError
\* (which is not the ProtocolError of a missing element); the empty text is
\* handed to the XML parser and fails there.
C2_OnlyAbsentRaisesValueError ==
    ParsedAny =>
        /\ last.in = None <=> last.out.exc = "ValueError"
        /\ last.in = Some(<<>>) => last.out.exc = "MalformedXmlError"

C2_Witness ==
    /\ last.in = None
    /\ last.out.exc = "ValueError"
    /\ doc.env = "empty"
    /\ failedAt = "OvfEnv"
    /\ exc = "MalformedXmlError"

\* C3: when every required element is there with text, the construction
\* succeeds and hostname and username are the document's texts, unchanged.
C3_NamesVerbatim ==
    /\ (ParsedDoc /\ AllRequiredNonEmpty(doc)) =>
          /\ last.out.exc = "none"
          /\ last.out.obj # None
          /\ last.out.obj[1].hostname = doc.host
          /\ last.out.obj[1].username = doc.user
    /\ ret # None => (ret[1].hostname = doc.host /\ ret[1].username = doc.user)

C3_Witness ==
    /\ ParsedDoc
    /\ doc.host = Some(<<" ", "H", " ">>)
    /\ last.out.obj # None
    /\ last.out.obj[1].hostname = Some(<<" ", "H", " ">>)

\* C4: an object that was constructed has a hostname and a username that
\* are texts of at least one character.
C4_NamesNonEmpty ==
    \A o \in {last.out.obj, ovfenv, ret} :
        o # None => (NonEmpty(o[1].hostname) /\ NonEmpty(o[1].username))

C4_Witness ==
    /\ ParsedDoc
    /\ doc.env = "full"
    /\ doc.host = Some(<<>>)
    /\ doc.user = Some(<<"u">>)
    /\ last.out.obj = None
    /\ last.out.exc = "ProtocolError"

\* C5: after a successful construction disable_ssh_password_auth is true
\* exactly when DisableSshPasswordAuthentication is there and reads "true"
\* in any mix of upper and lower case.
C5_DisableSshIffTrue ==
    \A o \in {last.out.obj, ovfenv, ret} :
        o # None => (o[1].disable_ssh_password_auth <=> SaysTrue(doc.auth))

C5_Witness ==
    /\ ParsedDoc
    /\ doc.auth = Some(<<"T", "R", "U", "E">>)
    /\ last.out.obj # None
    /\ last.out.obj[1].disable_ssh_password_auth

\* C6: ssh_pubkeys and ssh_keypairs hold one entry per PublicKey and per
\* KeyPair element, in document order, repeated entries kept, and a
\* sub-field without text is None, never the empty text.
C6_KeysAsInDocument ==
    \A o \in {last.out.obj, ovfenv, ret} :
        o # None =>
            /\ Len(o[1].ssh_pubkeys) = Len(doc.pubkeys)
            /\ Len(o[1].ssh_keypairs) = Len(doc.keypairs)
            /\ o[1].ssh_pubkeys = ExpectedKeys(doc.pubkeys)
            /\ o[1].ssh_keypairs = ExpectedKeys(doc.keypairs)
            /\ \A i \in 1..Len(o[1].ssh_pubkeys) :
                   \A j \in 1..3 : o[1].ssh_pubkeys[i][j] # Some(<<>>)

C6_Witness ==
    /\ ParsedDoc
    /\ last.out.obj # None
    /\ Len(doc.pubkeys) = MaxKeys
    /\ doc.pubkeys[1] = <<None, None, None>>
    /\ doc.pubkeys[2] = <<None, None, None>>
    /\ last.out.obj[1].ssh_pubkeys = doc.pubkeys

\* C7: the warning is logged exactly when the Version text is after "1.0"
\* in the order of strings, and with every required element there the
\* construction succeeds with the fields the document gives, whatever the
\* version.
C7_NewerVersionOnlyWarns ==
    /\ (ParsedDoc /\ doc.env \in {"full", "noConfSet"} /\ NonEmpty(doc.version)) =>
          (last.out.warned <=> LexGreater(doc.version[1], TextV10))
    /\ (ParsedDoc /\ AllRequiredNonEmpty(doc)) =>
          /\ last.out.exc = "none"
          /\ last.out.obj = Some(ExpectedObj(doc))

C7_Witness ==
    /\ ParsedDoc
    /\ doc.version = Some(<<"1", ".", "1", "0">>)
    /\ last.out.warned
    /\ last.out.exc = "none"
    /\ last.out.obj = Some(ExpectedObj(doc))

C9_SavedCopyHasNoPassword ==
    /\ libOvf # None =>
          /\ IsPrefix(<<"mount_dvd", "read_file", "OvfEnv", "write_file">>, calls)
          /\ failedAt # "OvfEnv"
          /\ libOvf = Some(DocText(Sanitized(doc)))
    /\ failedAt = "OvfEnv" => (libOvf = None /\ ~libTag)

\* the calls of a copy_ovf_env that returns
StepOrder ==
    <<"mount_dvd", "read_file", "OvfEnv", "write_file">>
    \o (IF tagOnDvd THEN <<"copyfile">> ELSE <<>>)
    \o <<"umount_dvd", "eject_dvd">>

\* C10: the collaborators are called in the order mount_dvd, read_file,
\* OvfEnv, write_file, copyfile (if the tag file is on the DVD), umount_dvd,
\* eject_dvd; umount_dvd is reached only after the copy and the tag file
\* were written; a failure from read_file to umount_dvd leaves the DVD
\* mounted, any failure leaves it not ejected and returns nothing, and a
\* failure of a device or file step is raised as ProtocolError.
C10_OrderAndFailure ==
    /\ IsPrefix(calls, StepOrder)
    /\ "umount_dvd" \in Range(calls) => (libOvf # None /\ (tagOnDvd => libTag))
    /\ failedAt \in {"read_file", "OvfEnv", "write_file", "copyfile", "umount_dvd"} => mounted
    /\ pc = "raised" => (~ejected /\ ret = None /\ failedAt = calls[Len(calls)])
    /\ failedAt \in {"mount_dvd", "read_file", "write_file", "copyfile", "umount_dvd", "eject_dvd"} =>
          exc = "ProtocolError"
    /\ ejected => pc = "returned"

C10_Witness ==
    /\ pc = "raised"
    /\ failedAt = "copyfile"
    /\ exc = "ProtocolError"
    /\ mounted
    /\ libOvf # None

====
